---- MODULE Spec2Model ----
(***************************************************************************)
(* PPO_Agent.play_n_timesteps and PPO_Agent.train_step_ppo of src/agent.py *)
(* as a state machine.  Arrays are numpy-like records [shape, data] with   *)
(* row-major data; indices are 0-based as in the source, sequences 1-based.*)
(* An observation of one environment is an opaque integer token; network   *)
(* parameters are a version counter theta bumped by every gradient step.   *)
(***************************************************************************)
EXTENDS Integers, Sequences, FiniteSets, TLC

(* ---- bounds of the model ---- *)
MaxEnvs == 2
MaxTs == 2
MaxTimesteps == 2
MaxMb == 3
MaxEpochs == 2
MaxBatch == 2
MaxAdv == 1
MaxEps == 2
EpsDen == 2

\* probability masses (in common units) of stored and recomputed probabilities
ProbMasses == {1, 2}

(* ---- hyper-parameters fixed by the constructor ---- *)
n_outputs == 2
gamma == 1
lmbda == 1

VARIABLES
    num_envs, t_timesteps, single_batch_ts, minibatch_size, epochs,
    pc, update, t, epoch, mb, ids,
    observation, next_val, m, theta,
    mb_actor_loss_l, mb_critic_loss_l,
    update_mean_actor_loss, update_mean_critic_loss,
    env_steps, env_resets,
    rollout_log, adv_args, train_log, events, theta_rollout, err,
    loss_in, loss_out

vars == << num_envs, t_timesteps, single_batch_ts, minibatch_size, epochs,
           pc, update, t, epoch, mb, ids,
           observation, next_val, m, theta,
           mb_actor_loss_l, mb_critic_loss_l,
           update_mean_actor_loss, update_mean_critic_loss,
           env_steps, env_resets,
           rollout_log, adv_args, train_log, events, theta_rollout, err,
           loss_in, loss_out >>

inputs == << num_envs, t_timesteps, single_batch_ts, minibatch_size, epochs >>

lossvars == << loss_in, loss_out >>

(* ------------------------------------------------------------------ *)
(* numpy arrays                                                       *)
(* ------------------------------------------------------------------ *)
RECURSIVE Sum(_)
Sum(s) == IF s = << >> THEN 0 ELSE Head(s) + Sum(Tail(s))

RECURSIVE Concat(_)
Concat(rows) == IF rows = << >> THEN << >> ELSE Head(rows) \o Concat(Tail(rows))

Arr(shape, data) == [shape |-> shape, data |-> data]

Zeros2(R, C) == Arr(<< R, C >>, [i \in 1..(R * C) |-> 0])

\* a[r][c] of a 2-d array
At2(a, r, c) == a.data[r * a.shape[2] + c + 1]

\* a[r] = row, for a 2-d array a; a row of shape (1, C) or (C,) broadcasts
SetRow(a, r, row) ==
    [a EXCEPT !.data = [i \in 1..Len(a.data) |->
        IF (i - 1) \div a.shape[2] = r THEN row[((i - 1) % a.shape[2]) + 1]
        ELSE a.data[i]]]

\* a[:, c] of a 2-d array
Col(a, c) == [r \in 1..a.shape[1] |-> At2(a, r - 1, c)]

\* np.array(rows) for a list of equally long lists
FromRows(rows) ==
    Arr(<< Len(rows), IF rows = << >> THEN 0 ELSE Len(rows[1]) >>, Concat(rows))

\* ndarray.squeeze(): drops every axis of length one
Squeeze(a) == Arr(SelectSeq(a.shape, LAMBDA d : d # 1), a.data)

\* ndarray.tolist(): a 0-d array gives a bare scalar, a 1-d array a flat list
Tolist(a) ==
    [kind |-> IF Len(a.shape) = 0 THEN "int"
              ELSE IF Len(a.shape) = 1 THEN "list" ELSE "nested",
     items |-> a.data]

\* np.arange(start, end, 1)
Arange(start, end) == [i \in 1..(IF end > start THEN end - start ELSE 0) |-> start + i - 1]

(* ------------------------------------------------------------------ *)
(* the collaborators: actor, critic, vectorized environment           *)
(* ------------------------------------------------------------------ *)
\* probability mass the actor with parameters th gives action a on observation o
ActorProb(th, o, a) == 1 + ((th + o + a) % 3)

\* the critic's value of observation o under parameters th
CriticValue(th, o) == o + th

\* get_action(x) with action=None; acts is the draw of probs.sample(1)
GetAction(th, x, acts) ==
    [actions |-> Arr(<< 1, Len(acts) >>, acts),
     probs |-> Arr(<< 1, Len(acts) >>,
                   [e \in 1..Len(acts) |-> ActorProb(th, x.data[e], acts[e])])]

\* get_value(x): the critic ends in Dense(1), so the output has shape (E, 1)
GetValue(th, x) ==
    Arr(<< Len(x.data), 1 >>, [e \in 1..Len(x.data) |-> CriticValue(th, x.data[e])])

\* observation token of environment e after k steps since reset
EnvObs(k, e) == 10 * k + e

\* envs.reset()
EnvReset(E) == Arr(<< E >>, [e \in 1..E |-> EnvObs(0, e - 1)])

\* envs.step(arg) as the (k+1)-th step; the environment takes the action of
\* instance e from position e of what it is handed
EnvStep(k, E, arg) ==
    [observation |-> Arr(<< E >>, [e \in 1..E |-> EnvObs(k + 1, e - 1)]),
     reward |-> [e \in 1..E |-> arg.items[e] + (k % 2)],
     terminated |-> [e \in 1..E |-> IF arg.items[e] = 1 /\ (k + e) % 2 = 0 THEN 1 ELSE 0],
     truncated |-> [e \in 1..E |-> IF arg.items[e] = 0 /\ (k + e) % 3 = 0 THEN 1 ELSE 0]]

(* ------------------------------------------------------------------ *)
(* memory.Memory and utils, as the specification describes them      *)
(* ------------------------------------------------------------------ *)
\* the buffer as allocated: every field [time x environment]
MemoryInit(T, E) ==
    [obss |-> Zeros2(T, E), actions |-> Zeros2(T, E), probs |-> Zeros2(T, E),
     rewards |-> Zeros2(T, E), terminateds |-> Zeros2(T, E),
     truncateds |-> Zeros2(T, E),
     values |-> Arr(<< T, E >>, [i \in 1..(T * E) |-> 0 - i]),
     advantages |-> Zeros2(T, E), returns |-> Zeros2(T, E),
     f_obss |-> Arr(<< 0 >>, << >>), f_actions |-> Arr(<< 0 >>, << >>),
     f_advantages |-> Arr(<< 0 >>, << >>), f_probs |-> Arr(<< 0 >>, << >>),
     f_returns |-> Arr(<< 0 >>, << >>)]

\* one field collapsed into a single ordered sequence
Flat(a) == Arr(<< Len(a.data) >>, a.data)

\* Memory.flatten()
Flatten(mm) ==
    [mm EXCEPT !.f_obss = Flat(mm.obss), !.f_actions = Flat(mm.actions),
               !.f_advantages = Flat(mm.advantages), !.f_probs = Flat(mm.probs),
               !.f_returns = Flat(mm.returns)]

\* continue_t: 0 when the episode terminated or was truncated at t
Cont(a, i) == IF a.terminateds[i] = 1 \/ a.truncateds[i] = 1 THEN 0 ELSE 1

\* GAE advantage at (1-based) timestep i, walking from the last timestep
RECURSIVE AdvAt(_, _)
AdvAt(a, i) ==
    IF i > Len(a.rewards) THEN 0
    ELSE LET nv == IF i = Len(a.rewards) THEN a.next_val ELSE a.values[i + 1]
             delta == a.rewards[i] + gamma * nv * Cont(a, i) - a.values[i]
         IN  delta + gamma * lmbda * Cont(a, i) * AdvAt(a, i + 1)

\* utils.calc_adv_list: one advantage per timestep of one environment
calc_adv_list(a) == [i \in 1..Len(a.rewards) |-> AdvAt(a, i)]

RECURSIVE RetAt(_, _)
RetAt(a, i) ==
    IF i > Len(a.rewards) THEN 0
    ELSE a.rewards[i] + gamma * Cont(a, i) * RetAt(a, i + 1)

\* utils.calc_returns: one discounted return per timestep of one environment
calc_returns(a) == [i \in 1..Len(a.rewards) |-> RetAt(a, i)]

(* ------------------------------------------------------------------ *)
(* play_n_timesteps                                                   *)
(* ------------------------------------------------------------------ *)
NoErr == [kind |-> "none", at |-> "none"]

NoLossIn == [new_probs |-> << >>, probs |-> << >>, adv |-> << >>, epsilon |-> 0]

\* batch = envs.num_envs * single_batch_ts
batch == num_envs * single_batch_ts

\* updates = t_timesteps // single_batch_ts
updates == t_timesteps \div single_batch_ts

\* variant: a[start:end] slicing, which silently drops what is out of range
Gather_slice(a, idx) ==
    LET inside == SelectSeq(idx, LAMBDA j : j >= 0 /\ j < Len(a.data))
    IN  [ok |-> TRUE, data |-> [i \in 1..Len(inside) |-> a.data[inside[i] + 1]]]

\* a[idx] for an integer index array: numpy raises IndexError when an index is
\* outside the array (negative indices count from the end)
Gather(a, idx) ==
    IF \E i \in 1..Len(idx) : idx[i] >= Len(a.data) \/ idx[i] < 0 - Len(a.data)
    THEN [ok |-> FALSE, data |-> << >>]
    ELSE [ok |-> TRUE,
          data |-> [i \in 1..Len(idx) |->
                      a.data[(IF idx[i] < 0 THEN Len(a.data) + idx[i] ELSE idx[i]) + 1]]]

\* np.mean of a list of scalars, as the fraction sum/len; nan for the empty list
Mean(l) ==
    IF l = << >> THEN [nan |-> TRUE, num |-> 0, den |-> 1]
    ELSE [nan |-> FALSE, num |-> Sum(l), den |-> Len(l)]

\* the losses train_step_ppo returns, as functions of the parameters it starts from
ActorLoss(th) == 3 * th + 1

CriticLoss(th) == 5 * th + 2

\* variant: the values recomputed by the critic from the stored observations
AdvArgs_critic(env_id) ==
    [rewards |-> Col(m.rewards, env_id),
     values |-> [r \in 1..m.obss.shape[1] |->
                   CriticValue(theta, At2(m.obss, r - 1, env_id))],
     terminateds |-> Col(m.terminateds, env_id),
     truncateds |-> Col(m.truncateds, env_id),
     next_val |-> next_val.data[env_id + 1]]

\* the arguments of utils.calc_adv_list for one environment
AdvArgs(env_id) ==
    [rewards |-> Col(m.rewards, env_id), values |-> Col(m.values, env_id),
     terminateds |-> Col(m.terminateds, env_id),
     truncateds |-> Col(m.truncateds, env_id),
     next_val |-> next_val.data[env_id + 1]]

\* variant: the timestep loop left after its first iteration
PcAfterTimestep_break(tt) == "post_rollout"

\* for t in range(single_batch_ts): where control goes after iteration tt
PcAfterTimestep(tt) == IF tt + 1 < single_batch_ts THEN "rollout" ELSE "post_rollout"

Init ==
    /\ num_envs \in 1..MaxEnvs
    /\ single_batch_ts \in 1..MaxTs
    /\ t_timesteps \in 0..MaxTimesteps
    /\ minibatch_size \in 0..MaxMb
    /\ epochs \in 0..MaxEpochs
    /\ pc = "start"
    /\ update = 0 /\ t = 0 /\ epoch = 0 /\ mb = 0 /\ ids = << >>
    /\ observation = Arr(<< 0 >>, << >>)
    /\ next_val = Arr(<< 0 >>, << >>)
    /\ m = MemoryInit(single_batch_ts, num_envs)
    /\ theta = 0
    /\ mb_actor_loss_l = << >> /\ mb_critic_loss_l = << >>
    /\ update_mean_actor_loss = << >> /\ update_mean_critic_loss = << >>
    /\ env_steps = 0 /\ env_resets = 0
    /\ rollout_log = << >> /\ adv_args = << >> /\ train_log = << >>
    /\ events = << >> /\ theta_rollout = 0 /\ err = NoErr
    /\ loss_in = NoLossIn /\ loss_out = << 0, 1 >>

\* lines 227-234
Reset ==
    /\ pc = "start"
    /\ observation' = EnvReset(num_envs)
    /\ env_resets' = env_resets + 1
    /\ pc' = "update_head"
    /\ UNCHANGED << inputs, update, t, epoch, mb, ids, next_val, m, theta,
                    mb_actor_loss_l, mb_critic_loss_l, update_mean_actor_loss,
                    update_mean_critic_loss, env_steps, rollout_log, adv_args,
                    train_log, events, theta_rollout, err, lossvars >>

\* line 236, the loop is entered; line 238, the timestep loop starts
BeginUpdate ==
    /\ pc = "update_head"
    /\ update < updates
    /\ pc' = "rollout"
    /\ t' = 0
    /\ rollout_log' = << >> /\ adv_args' = << >> /\ events' = << >>
    /\ theta_rollout' = theta
    /\ UNCHANGED << inputs, update, epoch, mb, ids, observation, next_val, m, theta,
                    mb_actor_loss_l, mb_critic_loss_l, update_mean_actor_loss,
                    update_mean_critic_loss, env_steps, env_resets, train_log,
                    err, lossvars >>

\* lines 238-251, one iteration of the timestep loop
RolloutStep ==
    /\ pc = "rollout"
    /\ \E acts \in [1..num_envs -> 0..(n_outputs - 1)] :
        LET ga == GetAction(theta, observation, acts)
            arg == Tolist(Squeeze(ga.actions))
            res == EnvStep(env_steps, num_envs, arg)
        IN  /\ m' = [m EXCEPT !.obss = SetRow(@, t, observation.data),
                              !.actions = SetRow(@, t, ga.actions.data),
                              !.probs = SetRow(@, t, ga.probs.data),
                              !.rewards = SetRow(@, t, res.reward),
                              !.terminateds = SetRow(@, t, res.terminated),
                              !.truncateds = SetRow(@, t, res.truncated)]
            /\ observation' = res.observation
            /\ rollout_log' = Append(rollout_log,
                   [fed |-> observation.data, sampled |-> acts,
                    prob |-> ga.probs.data, arg |-> arg, reward |-> res.reward,
                    terminated |-> res.terminated, truncated |-> res.truncated,
                    next_obs |-> res.observation.data])
    /\ env_steps' = env_steps + 1
    /\ events' = Append(events, "step")
    /\ pc' = PcAfterTimestep(t)
    /\ t' = IF PcAfterTimestep(t) = "rollout" THEN t + 1 ELSE t
    /\ UNCHANGED << inputs, update, epoch, mb, ids, next_val, theta,
                    mb_actor_loss_l, mb_critic_loss_l, update_mean_actor_loss,
                    update_mean_critic_loss, env_resets, adv_args, train_log,
                    theta_rollout, err, lossvars >>

\* lines 253-256; t still holds the last value of the timestep loop
PostRollout ==
    /\ pc = "post_rollout"
    /\ m' = [m EXCEPT !.obss = SetRow(@, t, observation.data)]
    /\ next_val' = Squeeze(GetValue(theta, observation))
    /\ events' = Append(events, "write")
    /\ pc' = "advantages"
    /\ UNCHANGED << inputs, update, t, epoch, mb, ids, observation, theta,
                    mb_actor_loss_l, mb_critic_loss_l, update_mean_actor_loss,
                    update_mean_critic_loss, env_steps, env_resets, rollout_log,
                    adv_args, train_log, theta_rollout, err, lossvars >>

\* lines 259-263; next_val[env_id] raises IndexError on a 0-d array
Advantages ==
    /\ pc = "advantages"
    /\ IF Len(next_val.shape) = 0
       THEN /\ pc' = "halted"
            /\ err' = [kind |-> "IndexError", at |-> "advantages"]
            /\ UNCHANGED << m, adv_args, events >>
       ELSE LET args == [e \in 1..num_envs |-> AdvArgs(e - 1)]
            IN  /\ m' = [m EXCEPT
                      !.advantages = FromRows([e \in 1..num_envs |-> calc_adv_list(args[e])]),
                      !.returns = FromRows([e \in 1..num_envs |-> calc_returns(args[e])])]
                /\ adv_args' = args
                /\ events' = Append(events, "write")
                /\ pc' = "flatten"
                /\ err' = err
    /\ UNCHANGED << inputs, update, t, epoch, mb, ids, observation, next_val, theta,
                    mb_actor_loss_l, mb_critic_loss_l, update_mean_actor_loss,
                    update_mean_critic_loss, env_steps, env_resets, rollout_log,
                    train_log, theta_rollout, lossvars >>

\* lines 265-268
FlattenStep ==
    /\ pc = "flatten"
    /\ m' = Flatten(m)
    /\ mb_actor_loss_l' = << >> /\ mb_critic_loss_l' = << >>
    /\ events' = Append(events, "write")
    /\ epoch' = 0
    /\ pc' = "epoch_head"
    /\ UNCHANGED << inputs, update, t, mb, ids, observation, next_val, theta,
                    update_mean_actor_loss, update_mean_critic_loss, env_steps,
                    env_resets, rollout_log, adv_args, train_log, theta_rollout,
                    err, lossvars >>

\* lines 270-275, an epoch starts
BeginEpoch ==
    /\ pc = "epoch_head"
    /\ epoch < epochs
    /\ ids' = Arange(epoch * minibatch_size, epoch * minibatch_size + minibatch_size)
    /\ mb' = 0
    /\ pc' = "minibatch"
    /\ UNCHANGED << inputs, update, t, epoch, observation, next_val, m, theta,
                    mb_actor_loss_l, mb_critic_loss_l, update_mean_actor_loss,
                    update_mean_critic_loss, env_steps, env_resets, rollout_log,
                    adv_args, train_log, events, theta_rollout, err, lossvars >>

\* lines 277-288, one iteration of the minibatch loop, with train_step_ppo (195-223)
MinibatchStep ==
    /\ pc = "minibatch"
    /\ mb < minibatch_size
    /\ LET mb_obs == Gather(m.f_obss, ids)
           mb_actions == Gather(m.f_actions, ids)
           mb_adv == Gather(m.f_advantages, ids)
           mb_probs == Gather(m.f_probs, ids)
           mb_returns == Gather(m.f_returns, ids)
       IN  IF ~(mb_obs.ok /\ mb_actions.ok /\ mb_adv.ok /\ mb_probs.ok /\ mb_returns.ok)
           THEN /\ pc' = "halted"
                /\ err' = [kind |-> "IndexError", at |-> "minibatch"]
                /\ UNCHANGED << mb, theta, mb_actor_loss_l, mb_critic_loss_l,
                                train_log, events >>
           ELSE /\ theta' = theta + 1
                /\ mb_actor_loss_l' = Append(mb_actor_loss_l, ActorLoss(theta))
                /\ mb_critic_loss_l' = Append(mb_critic_loss_l, CriticLoss(theta))
                /\ train_log' = Append(train_log,
                       [update |-> update, epoch |-> epoch, ids |-> ids,
                        loss_actor |-> ActorLoss(theta),
                        loss_value |-> CriticLoss(theta)])
                /\ events' = Append(events, "train")
                /\ mb' = mb + 1
                /\ pc' = "minibatch"
                /\ err' = err
    /\ UNCHANGED << inputs, update, t, epoch, ids, observation, next_val, m,
                    update_mean_actor_loss, update_mean_critic_loss, env_steps,
                    env_resets, rollout_log, adv_args, theta_rollout, lossvars >>

\* line 277 exhausted: back to line 270 for the next epoch
EndEpoch ==
    /\ pc = "minibatch"
    /\ mb >= minibatch_size
    /\ epoch' = epoch + 1
    /\ pc' = "epoch_head"
    /\ UNCHANGED << inputs, update, t, mb, ids, observation, next_val, m, theta,
                    mb_actor_loss_l, mb_critic_loss_l, update_mean_actor_loss,
                    update_mean_critic_loss, env_steps, env_resets, rollout_log,
                    adv_args, train_log, events, theta_rollout, err, lossvars >>

\* lines 290-291, after the last epoch
AppendMeans ==
    /\ pc = "epoch_head"
    /\ epoch >= epochs
    /\ update_mean_actor_loss' = Append(update_mean_actor_loss, Mean(mb_actor_loss_l))
    /\ update_mean_critic_loss' = Append(update_mean_critic_loss, Mean(mb_critic_loss_l))
    /\ update' = update + 1
    /\ pc' = "update_head"
    /\ UNCHANGED << inputs, t, epoch, mb, ids, observation, next_val, m, theta,
                    mb_actor_loss_l, mb_critic_loss_l, env_steps, env_resets,
                    rollout_log, adv_args, train_log, events, theta_rollout, err,
                    lossvars >>

\* line 293
Return ==
    /\ pc = "update_head"
    /\ update >= updates
    /\ pc' = "done"
    /\ UNCHANGED << inputs, update, t, epoch, mb, ids, observation, next_val, m,
                    theta, mb_actor_loss_l, mb_critic_loss_l, update_mean_actor_loss,
                    update_mean_critic_loss, env_steps, env_resets, rollout_log,
                    adv_args, train_log, events, theta_rollout, err, lossvars >>

Next ==
    \/ Reset
    \/ BeginUpdate
    \/ RolloutStep
    \/ PostRollout
    \/ Advantages
    \/ FlattenStep
    \/ BeginEpoch
    \/ MinibatchStep
    \/ EndEpoch
    \/ AppendMeans
    \/ Return

Spec == Init /\ [][Next]_vars

(* ------------------------------------------------------------------ *)
(* train_step_ppo: the clipped surrogate loss, in exact fractions     *)
(* a fraction is << numerator, denominator >> with denominator > 0    *)
(* ------------------------------------------------------------------ *)
RMul(a, b) == << a[1] * b[1], a[2] * b[2] >>

RAdd(a, b) == << a[1] * b[2] + b[1] * a[2], a[2] * b[2] >>

RNeg(a) == << 0 - a[1], a[2] >>

RLe(a, b) == a[1] * b[2] <= b[1] * a[2]

REq(a, b) == a[1] * b[2] = b[1] * a[2]

RMin(a, b) == IF RLe(a, b) THEN a ELSE b

RMax(a, b) == IF RLe(a, b) THEN b ELSE a

RECURSIVE RSum(_)
RSum(s) == IF s = << >> THEN << 0, 1 >> ELSE RAdd(Head(s), RSum(Tail(s)))

\* tf.reduce_mean over a vector of fractions
RMean(s) == LET total == RSum(s) IN << total[1], total[2] * Len(s) >>

\* tf.clip_by_value(x, lo, hi) = maximum(minimum(x, hi), lo)
ClipByValue(x, lo, hi) == RMax(RMin(x, hi), lo)

\* variant: the mean taken without the negation (line 211)
LossClip_unnegated(new_probs, probs, adv, eps) ==
    LET ratio == [i \in 1..Len(adv) |-> << new_probs[i], probs[i] >>]
        clip == [i \in 1..Len(adv) |->
                   RMul(ClipByValue(ratio[i], << EpsDen - eps, EpsDen >>,
                                    << EpsDen + eps, EpsDen >>),
                        << adv[i], 1 >>)]
        loss_clip == [i \in 1..Len(adv) |->
                        RMin(RMul(ratio[i], << adv[i], 1 >>), clip[i])]
    IN  RMean(loss_clip)

\* lines 205-210: the policy loss from the recomputed and the stored
\* probabilities, the advantages and epsilon = eps / EpsDen
LossClip(new_probs, probs, adv, eps) ==
    LET ratio == [i \in 1..Len(adv) |-> << new_probs[i], probs[i] >>]
        clip == [i \in 1..Len(adv) |->
                   RMul(ClipByValue(ratio[i], << EpsDen - eps, EpsDen >>,
                                    << EpsDen + eps, EpsDen >>),
                        << adv[i], 1 >>)]
        loss_clip == [i \in 1..Len(adv) |->
                        RMin(RMul(ratio[i], << adv[i], 1 >>), clip[i])]
    IN  RNeg(RMean(loss_clip))

\* a minibatch handed to train_step_ppo by an agent constructed with any epsilon
InitLoss ==
    /\ \E n \in 1..MaxBatch :
         loss_in \in [new_probs : [1..n -> ProbMasses], probs : [1..n -> ProbMasses],
                      adv : [1..n -> (0 - MaxAdv)..MaxAdv],
                      epsilon : (0 - MaxEps)..MaxEps]
    /\ loss_out = << 0, 1 >>
    /\ pc = "train_step"
    /\ num_envs = 1 /\ single_batch_ts = 1 /\ t_timesteps = 0
    /\ minibatch_size = 0 /\ epochs = 0
    /\ update = 0 /\ t = 0 /\ epoch = 0 /\ mb = 0 /\ ids = << >>
    /\ observation = Arr(<< 0 >>, << >>)
    /\ next_val = Arr(<< 0 >>, << >>)
    /\ m = MemoryInit(1, 1)
    /\ theta = 0
    /\ mb_actor_loss_l = << >> /\ mb_critic_loss_l = << >>
    /\ update_mean_actor_loss = << >> /\ update_mean_critic_loss = << >>
    /\ env_steps = 0 /\ env_resets = 0
    /\ rollout_log = << >> /\ adv_args = << >> /\ train_log = << >>
    /\ events = << >> /\ theta_rollout = 0 /\ err = NoErr

\* lines 195-223: the loss train_step_ppo returns, and one gradient step
TrainStepPpo ==
    /\ pc = "train_step"
    /\ loss_out' = LossClip(loss_in.new_probs, loss_in.probs, loss_in.adv,
                            loss_in.epsilon)
    /\ theta' = theta + 1
    /\ pc' = "trained"
    /\ UNCHANGED << inputs, update, t, epoch, mb, ids, observation, next_val, m,
                    mb_actor_loss_l, mb_critic_loss_l, update_mean_actor_loss,
                    update_mean_critic_loss, env_steps, env_resets, rollout_log,
                    adv_args, train_log, events, theta_rollout, err, loss_in >>

NextLoss == TrainStepPpo

SpecLoss == InitLoss /\ [][NextLoss]_vars

(* ------------------------------------------------------------------ *)
(* properties                                                         *)
(* ------------------------------------------------------------------ *)
TrainCalls(u, ep) == SelectSeq(train_log, LAMBDA c : c.update = u /\ c.epoch = ep)

UpdateCalls(u) == SelectSeq(train_log, LAMBDA c : c.update = u)

\* epoch ep of update u has run all its minibatches
EpochDone(u, ep) ==
    \/ u < update
    \/ u = update /\ pc \in {"epoch_head", "minibatch"} /\ ep < epoch

\* every minibatch range of a run that trains lies inside the flattened buffer
RangesInside == epochs * minibatch_size <= batch

\* C1: in every finished epoch of every update the index ranges handed to
\* train_step_ppo, taken in call order, are 0, 1, ..., batch-1: contiguous,
\* non-overlapping, covering the flattened buffer exactly once.  Stated for
\* the runs that train (minibatch_size >= 1) with ranges inside the buffer.
C1_EpochCoversBufferOnce ==
    (minibatch_size >= 1 /\ RangesInside) =>
        \A u \in 0..update : \A ep \in 0..(epochs - 1) :
            EpochDone(u, ep) =>
                LET calls == TrainCalls(u, ep)
                IN  Concat([i \in 1..Len(calls) |-> calls[i].ids]) = Arange(0, batch)

\* C2: when m.flatten() is called, row t of the buffer pairs the observation
\* fed to the policy at timestep t with the action and probability it
\* produced and with the reward and flags of stepping with that action.
C2_TemporalPairing ==
    pc = "flatten" =>
        \A tt \in 0..(single_batch_ts - 1) : \A e \in 0..(num_envs - 1) :
            /\ At2(m.obss, tt, e) = rollout_log[tt + 1].fed[e + 1]
            /\ At2(m.actions, tt, e) = rollout_log[tt + 1].sampled[e + 1]
            /\ At2(m.probs, tt, e) = rollout_log[tt + 1].prob[e + 1]
            /\ At2(m.rewards, tt, e) = rollout_log[tt + 1].reward[e + 1]
            /\ At2(m.terminateds, tt, e) = rollout_log[tt + 1].terminated[e + 1]
            /\ At2(m.truncateds, tt, e) = rollout_log[tt + 1].truncated[e + 1]

\* C3: when m.flatten() is called, advantages and returns have the
\* (time, environment) layout of obss, actions, probs and rewards: entry
\* [t][e] is the estimate for timestep t of environment e.
C3_SharedLayout ==
    pc = "flatten" =>
        /\ m.advantages.shape = m.obss.shape
        /\ m.returns.shape = m.obss.shape
        /\ \A tt \in 0..(single_batch_ts - 1) : \A e \in 0..(num_envs - 1) :
              /\ At2(m.advantages, tt, e) = calc_adv_list(adv_args[e + 1])[tt + 1]
              /\ At2(m.returns, tt, e) = calc_returns(adv_args[e + 1])[tt + 1]

\* C4: what every rollout timestep hands to envs.step is a flat list of
\* num_envs actions whose element e is the action sampled for environment e.
C4_FlatActionList ==
    \A i \in 1..Len(rollout_log) :
        /\ rollout_log[i].arg.kind = "list"
        /\ Len(rollout_log[i].arg.items) = num_envs
        /\ rollout_log[i].arg.items = rollout_log[i].sampled

Count(s, x) == Len(SelectSeq(s, LAMBDA y : y = x))

\* C5: in every update all single_batch_ts environment steps and all buffer
\* writes precede the first train_step_ppo call, none follows it, and the
\* network parameters stay what they were when the rollout began until the
\* buffer is flattened.
C5_PhasesAlternate ==
    /\ \A i \in 1..Len(events) : \A j \in 1..Len(events) :
          (events[i] = "train" /\ i < j) => events[j] = "train"
    /\ Count(events, "train") > 0 =>
          /\ Count(events, "step") = single_batch_ts
          /\ env_steps = single_batch_ts *
                (IF pc \in {"update_head", "done"} THEN update ELSE update + 1)
          /\ m.f_obss = Flat(m.obss) /\ m.f_actions = Flat(m.actions)
          /\ m.f_probs = Flat(m.probs) /\ m.f_advantages = Flat(m.advantages)
          /\ m.f_returns = Flat(m.returns)
    /\ pc \in {"rollout", "post_rollout", "advantages", "flatten"} =>
          theta = theta_rollout

\* a second update is training, after the first one changed the parameters
C5_Witness ==
    /\ update >= 1 /\ pc = "minibatch" /\ Count(events, "train") >= 1
    /\ Count(events, "step") = single_batch_ts

\* C6: once a rollout has taken its last timestep and control has passed the
\* estimator call, the bootstrap value handed over for environment e is the
\* critic's value of e's component of the observation the last envs.step
\* returned.
C6_BootstrapPerEnv ==
    (Len(rollout_log) = single_batch_ts
       /\ pc \notin {"rollout", "post_rollout", "advantages"}) =>
        /\ Len(adv_args) = num_envs
        /\ \A e \in 1..num_envs :
              adv_args[e].next_val =
                  CriticValue(theta_rollout, rollout_log[single_batch_ts].next_obs[e])

\* C7: a minibatch range reaching past the flattened buffer stops the run
\* with IndexError before train_step_ppo is called; every range that was
\* trained on is the unwrapped, untruncated range of its epoch, inside the
\* buffer.
C7_OutOfRangeHalts ==
    /\ [](\A i \in 1..Len(train_log) :
            /\ train_log[i].ids =
                  Arange(train_log[i].epoch * minibatch_size,
                         train_log[i].epoch * minibatch_size + minibatch_size)
            /\ \A k \in 1..Len(train_log[i].ids) :
                  train_log[i].ids[k] >= 0 /\ train_log[i].ids[k] < batch)
    /\ [][(pc = "minibatch" /\ mb < minibatch_size
             /\ epoch * minibatch_size + minibatch_size > batch) =>
            (pc' = "halted" /\ err'.kind = "IndexError"
               /\ train_log' = train_log /\ theta' = theta)]_vars

\* the run stopped in the minibatch loop on a range partly inside the buffer
C7_Witness ==
    /\ pc = "halted" /\ err = [kind |-> "IndexError", at |-> "minibatch"]
    /\ epoch * minibatch_size < batch
    /\ epoch * minibatch_size + minibatch_size > batch

\* C8: with every recomputed probability equal to the stored one, the policy
\* loss is minus the mean advantage, for every epsilon.
C8_RatioOneAnyEpsilon ==
    (pc = "trained" /\ loss_in.new_probs = loss_in.probs) =>
        REq(loss_out, RNeg(RMean([i \in 1..Len(loss_in.adv) |-> << loss_in.adv[i], 1 >>])))

\* C8 as amended: the same for every epsilon >= 0.
C8_RatioOneNonNegEpsilon ==
    (pc = "trained" /\ loss_in.new_probs = loss_in.probs /\ loss_in.epsilon >= 0) =>
        REq(loss_out, RNeg(RMean([i \in 1..Len(loss_in.adv) |-> << loss_in.adv[i], 1 >>])))

\* ratio one on a two-sample minibatch with a negative advantage, epsilon > 0
C8_Witness ==
    /\ pc = "trained" /\ loss_in.new_probs = loss_in.probs
    /\ loss_in.epsilon > 0 /\ Len(loss_in.adv) = 2
    /\ loss_in.adv[1] < 0 /\ loss_in.adv[2] > 0
    /\ loss_in.probs[1] = 2

\* C9: with ranges inside the buffer the run does not stop with an error, and
\* when it has returned it has made exactly t_timesteps // single_batch_ts
\* updates, one envs.reset, updates * single_batch_ts envs.step calls, and
\* the two lists hold, per update, the means of that update's losses only.
C9_TerminatesWithMeans ==
    RangesInside =>
        /\ pc # "halted"
        /\ pc # "start" => env_resets = 1
        /\ pc = "done" =>
              /\ update = updates
              /\ env_steps = updates * single_batch_ts
              /\ Len(update_mean_actor_loss) = updates
              /\ Len(update_mean_critic_loss) = updates
              /\ \A u \in 1..updates :
                    LET calls == UpdateCalls(u - 1)
                    IN  /\ update_mean_actor_loss[u] =
                              Mean([i \in 1..Len(calls) |-> calls[i].loss_actor])
                        /\ update_mean_critic_loss[u] =
                              Mean([i \in 1..Len(calls) |-> calls[i].loss_value])

\* C10: the values field of the buffer is never written, and the values
\* handed to the estimator are the contents it had on entry.
C10_ValuesUntouched ==
    /\ m.values = MemoryInit(single_batch_ts, num_envs).values
    /\ \A e \in 1..Len(adv_args) :
          adv_args[e].values =
              Col(MemoryInit(single_batch_ts, num_envs).values, e - 1)

\* the estimator has been called in an update that follows gradient steps
C10_Witness ==
    /\ update >= 1 /\ theta_rollout >= 1 /\ Len(adv_args) = num_envs
    /\ pc = "flatten"

====
